---- MODULE Spec2Model ----
(***************************************************************************)
(* Model of the cascaded flight controller of src/controller.py.           *)
(*                                                                         *)
(* Numbers.  The controller computes on floats.  A float is modelled as an *)
(* exact rational <<n, d>> in lowest terms with d > 0; the non-finite      *)
(* values a float division by zero produces under numpy are <<1, 0>>       *)
(* (inf), <<-1, 0>> (-inf) and <<0, 0>> (nan).  Rounding is not modelled.  *)
(*                                                                         *)
(* Angles.  A yaw angle is a rational in units of pi (1 stands for pi      *)
(* radians).  An attitude is a triple of named angles whose sine and       *)
(* cosine are rational.                                                    *)
(*                                                                         *)
(* Calls.  One action per method of NonlinearController: the action draws  *)
(* the arguments, runs the whole method and leaves the returned value in   *)
(* ret.  The caller then ends the control cycle and calls again; reused    *)
(* records that the controller object has served a call before.            *)
(***************************************************************************)
EXTENDS Integers, Sequences, FiniteSets, TLC

VARIABLES pc, call, ret, frame, trajectory, self, heap, MOI, acceleration_ff_default, reused

vars == <<pc, call, ret, frame, trajectory, self, heap, MOI, acceleration_ff_default, reused>>

-----------------------------------------------------------------------------
(* Float arithmetic, as exact rationals with inf and nan.                  *)

AbsInt(n) == IF n < 0 THEN -n ELSE n

SignInt(n) == IF n < 0 THEN -1 ELSE IF n > 0 THEN 1 ELSE 0

RECURSIVE GCD(_, _)
GCD(a, b) == IF b = 0 THEN a ELSE GCD(b, a % b)

Rat(n, d) ==
    IF d = 0 THEN <<SignInt(n), 0>>
    ELSE LET g == GCD(AbsInt(n), AbsInt(d))
             s == IF d < 0 THEN -1 ELSE 1
         IN  <<(s * n) \div g, (s * d) \div g>>

Zero == <<0, 1>>

IsFinite(a) == a[2] # 0

RNeg(a) == <<-a[1], a[2]>>

RAdd(a, b) ==
    IF IsFinite(a) /\ IsFinite(b)
    THEN LET g == GCD(a[2], b[2])
         IN  Rat(a[1] * (b[2] \div g) + b[1] * (a[2] \div g), (a[2] \div g) * b[2])
    ELSE IF IsFinite(b) THEN a
    ELSE IF IsFinite(a) THEN b
    ELSE IF a = b THEN a ELSE <<0, 0>>

RSub(a, b) == RAdd(a, RNeg(b))

\* Cancelled crosswise before multiplying, so that the integers stay small.
RMul(a, b) ==
    IF IsFinite(a) /\ IsFinite(b)
    THEN LET g1 == GCD(AbsInt(a[1]), b[2])
             g2 == GCD(AbsInt(b[1]), a[2])
         IN  <<(a[1] \div g1) * (b[1] \div g2), (a[2] \div g2) * (b[2] \div g1)>>
    ELSE Rat(a[1] * b[1], a[2] * b[2])

\* a / b under numpy: x / 0 is inf, -inf or nan; no exception is raised.
RDiv(a, b) ==
    IF IsFinite(b) /\ b[1] # 0
    THEN RMul(a, IF b[1] < 0 THEN <<-b[2], -b[1]>> ELSE <<b[2], b[1]>>)
    ELSE Rat(a[1] * b[2], a[2] * b[1])

RLt(a, b) == a[1] * b[2] < b[1] * a[2]

RLe(a, b) == a[1] * b[2] <= b[1] * a[2]

RAbs(a) == <<AbsInt(a[1]), a[2]>>

\* Python's float %: the result has the sign of the (positive) divisor.
RMod(a, m) ==
    LET q == RDiv(a, m)
    IN  RSub(a, RMul(m, <<q[1] \div q[2], 1>>))

\* np.clip(x, lo, hi)
clip(x, lo, hi) == IF RLt(x, lo) THEN lo ELSE IF RLt(hi, x) THEN hi ELSE x

\* Element-wise numpy array arithmetic.
VSub(u, v) == [i \in 1..Len(u) |-> RSub(u[i], v[i])]

VAdd(u, v) == [i \in 1..Len(u) |-> RAdd(u[i], v[i])]

VMulS(u, s) == [i \in 1..Len(u) |-> RMul(u[i], s)]

VDivS(u, s) == [i \in 1..Len(u) |-> RDiv(u[i], s)]

VFinite(u) == \A i \in 1..Len(u) : IsFinite(u[i])

\* seq[i] for a Python list and a Python index: a negative index counts from the end.
PyIndex(seq, i) == IF i >= 0 THEN seq[i + 1] ELSE seq[Len(seq) + i + 1]

-----------------------------------------------------------------------------
(* Module constants.                                                       *)

DRONE_MASS_KG == Rat(1, 2)

GRAVITY == Rat(-981, 100)

MOI_INIT == <<Rat(5, 1000), Rat(5, 1000), Rat(1, 100)>>

MAX_THRUST == Rat(10, 1)

MAX_TORQUE == Rat(1, 1)

EPSILON == Rat(1, 10000)

MAX_TILT == Rat(1, 1)

\* np.pi, in units of pi.
PI == Rat(1, 1)

-----------------------------------------------------------------------------
(* Scalar feedback laws.                                                   *)

\* Mutant: the derivative gain added without its factor error_dot.
PDController_control_bias(c, error, error_dot, feed_forward) ==
    RAdd(RAdd(RMul(c.k_p, error), c.k_d), feed_forward)

PDController_control(c, error, error_dot, feed_forward) ==
    RAdd(RAdd(RMul(c.k_p, error), RMul(c.k_d, error_dot)), feed_forward)

PController_control(c, error) == PDController_control(c, error, Zero, Zero)

\* Mutant: the closing subtraction of np.pi left out.
normalize_angle_unshifted(x) ==
    LET x1 == RMod(RAdd(x, PI), RMul(Rat(2, 1), PI))
        x2 == IF RLt(x1, Zero) THEN RAdd(x1, RMul(Rat(2, 1), PI)) ELSE x1
    IN  x2

normalize_angle(x) ==
    LET x1 == RMod(RAdd(x, PI), RMul(Rat(2, 1), PI))
        x2 == IF RLt(x1, Zero) THEN RAdd(x1, RMul(Rat(2, 1), PI)) ELSE x1
    IN  RSub(x2, PI)

-----------------------------------------------------------------------------
(* The controller object: NonlinearController.__init__.                    *)

\* The PDController/PController instances __init__ creates, by identity.
HEAP_INIT ==
    [altitude   |-> [k_p |-> Rat(8, 1),  k_d |-> Rat(4, 1)],
     yaw        |-> [k_p |-> Rat(11, 2), k_d |-> Zero],
     pq         |-> [k_p |-> Rat(20, 1), k_d |-> Zero],
     r          |-> [k_p |-> Rat(15, 2), k_d |-> Zero],
     roll_pitch |-> [k_p |-> Rat(8, 1),  k_d |-> Zero],
     xy         |-> [k_p |-> Rat(5, 1),  k_d |-> Rat(4, 1)]]

\* The attributes of self, each a reference to one of the instances.
SELF_INIT ==
    [altitude_controller_ |-> "altitude",
     yaw_controller_      |-> "yaw",
     p_controller_        |-> "pq",
     q_controller_        |-> "pq",
     r_controller_        |-> "r",
     roll_controller_     |-> "roll_pitch",
     pitch_controller_    |-> "roll_pitch",
     x_controller_        |-> "xy",
     y_controller_        |-> "xy"]

\* The default argument of lateral_position_control: one array, made once.
FF_DEFAULT_INIT == <<Zero, Zero>>

-----------------------------------------------------------------------------
(* Rotation matrix of an attitude (roll, pitch, yaw).                      *)

\* The cosine and sine of each named angle; "tilt" is atan(3/4) and "edge"
\* is the angle whose cosine is 20001/200020001, just under EPSILON.
Cos(a) ==
    CASE a = "0"     -> <<1, 1>>
      [] a = "pi/2"  -> <<0, 1>>
      [] a = "pi"    -> <<-1, 1>>
      [] a = "-pi/2" -> <<0, 1>>
      [] a = "tilt"  -> <<4, 5>>
      [] a = "-tilt" -> <<4, 5>>
      [] a = "edge"  -> <<20001, 200020001>>

Sin(a) ==
    CASE a = "0"     -> <<0, 1>>
      [] a = "pi/2"  -> <<1, 1>>
      [] a = "pi"    -> <<0, 1>>
      [] a = "-pi/2" -> <<-1, 1>>
      [] a = "tilt"  -> <<3, 5>>
      [] a = "-tilt" -> <<-3, 5>>
      [] a = "edge"  -> <<200020000, 200020001>>

\* Body-to-world rotation Rz(yaw) Ry(pitch) Rx(roll); R[i][j] of the code
\* is euler2RM(attitude)[i + 1][j + 1].
euler2RM(attitude) ==
    LET cr == Cos(attitude[1])
        sr == Sin(attitude[1])
        cp == Cos(attitude[2])
        sp == Sin(attitude[2])
        cy == Cos(attitude[3])
        sy == Sin(attitude[3])
    IN  << << RMul(cp, cy),
              RSub(RMul(RMul(sr, sp), cy), RMul(cr, sy)),
              RAdd(RMul(RMul(cr, sp), cy), RMul(sr, sy)) >>,
           << RMul(cp, sy),
              RAdd(RMul(RMul(sr, sp), sy), RMul(cr, cy)),
              RSub(RMul(RMul(cr, sp), sy), RMul(sr, cy)) >>,
           << RNeg(sp),
              RMul(sr, cp),
              RMul(cr, cp) >> >>

-----------------------------------------------------------------------------
(* NonlinearController: the methods, as functions of their arguments and   *)
(* of the controller object (self_, heap_) they read.                      *)

\* np.argmin(np.abs(np.array(time_trajectory) - current_time)): the first
\* index (from 0) of a timestamp at the least distance from current_time.
argmin_abs(time_trajectory, current_time) ==
    LET dist(i) == RAbs(RSub(time_trajectory[i + 1], current_time))
        n == Len(time_trajectory)
    IN  CHOOSE i \in 0..(n - 1) :
            /\ \A j \in 0..(n - 1) : RLe(dist(i), dist(j))
            /\ \A j \in 0..(i - 1) : RLt(dist(i), dist(j))

\* The locals of trajectory_control when it reaches its two closing
\* assignments: the segment it chose and the yaw command.
\* Mutant: the branch test written current_time <= time_ref.
segment_at_le(position_trajectory, yaw_trajectory, time_trajectory, current_time, ind_min) ==
    LET time_ref == PyIndex(time_trajectory, ind_min)
    IN  IF RLe(current_time, time_ref)
        THEN [ind_min   |-> ind_min,
              position0 |-> PyIndex(position_trajectory, ind_min - 1),
              position1 |-> PyIndex(position_trajectory, ind_min),
              time0     |-> PyIndex(time_trajectory, ind_min - 1),
              time1     |-> PyIndex(time_trajectory, ind_min),
              yaw_cmd   |-> PyIndex(yaw_trajectory, ind_min - 1)]
        ELSE IF ind_min >= Len(position_trajectory) - 1
        THEN [ind_min   |-> ind_min,
              position0 |-> PyIndex(position_trajectory, ind_min),
              position1 |-> PyIndex(position_trajectory, ind_min),
              time0     |-> Rat(0, 1),
              time1     |-> Rat(1, 1),
              yaw_cmd   |-> PyIndex(yaw_trajectory, ind_min)]
        ELSE [ind_min   |-> ind_min,
              position0 |-> PyIndex(position_trajectory, ind_min),
              position1 |-> PyIndex(position_trajectory, ind_min + 1),
              time0     |-> PyIndex(time_trajectory, ind_min),
              time1     |-> PyIndex(time_trajectory, ind_min + 1),
              yaw_cmd   |-> PyIndex(yaw_trajectory, ind_min)]

segment_at(position_trajectory, yaw_trajectory, time_trajectory, current_time, ind_min) ==
    LET time_ref == PyIndex(time_trajectory, ind_min)
    IN  IF RLt(current_time, time_ref)
        THEN [ind_min   |-> ind_min,
              position0 |-> PyIndex(position_trajectory, ind_min - 1),
              position1 |-> PyIndex(position_trajectory, ind_min),
              time0     |-> PyIndex(time_trajectory, ind_min - 1),
              time1     |-> PyIndex(time_trajectory, ind_min),
              yaw_cmd   |-> PyIndex(yaw_trajectory, ind_min - 1)]
        ELSE IF ind_min >= Len(position_trajectory) - 1
        THEN [ind_min   |-> ind_min,
              position0 |-> PyIndex(position_trajectory, ind_min),
              position1 |-> PyIndex(position_trajectory, ind_min),
              time0     |-> Rat(0, 1),
              time1     |-> Rat(1, 1),
              yaw_cmd   |-> PyIndex(yaw_trajectory, ind_min)]
        ELSE [ind_min   |-> ind_min,
              position0 |-> PyIndex(position_trajectory, ind_min),
              position1 |-> PyIndex(position_trajectory, ind_min + 1),
              time0     |-> PyIndex(time_trajectory, ind_min),
              time1     |-> PyIndex(time_trajectory, ind_min + 1),
              yaw_cmd   |-> PyIndex(yaw_trajectory, ind_min)]

trajectory_segment(position_trajectory, yaw_trajectory, time_trajectory, current_time) ==
    segment_at(position_trajectory, yaw_trajectory, time_trajectory, current_time,
               argmin_abs(time_trajectory, current_time))

\* The returned tuple (position_cmd, velocity_cmd, yaw_cmd), from the locals.
trajectory_command(f, current_time) ==
    LET delta == VSub(f.position1, f.position0)
        span == RSub(f.time1, f.time0)
    IN  [position_cmd |-> VAdd(VDivS(VMulS(delta, RSub(current_time, f.time0)), span),
                               f.position0),
         velocity_cmd |-> VDivS(delta, span),
         yaw_cmd      |-> f.yaw_cmd]

trajectory_control(position_trajectory, yaw_trajectory, time_trajectory, current_time) ==
    trajectory_command(
        trajectory_segment(position_trajectory, yaw_trajectory, time_trajectory, current_time),
        current_time)

lateral_position_control(self_, heap_, local_position_cmd, local_velocity_cmd, local_position, local_velocity, acceleration_ff) ==
    LET acc_x == PDController_control(heap_[self_.x_controller_],
                                      RSub(local_position_cmd[1], local_position[1]),
                                      RSub(local_velocity_cmd[1], local_velocity[1]),
                                      acceleration_ff[1])
        acc_y == PDController_control(heap_[self_.y_controller_],
                                      RSub(local_position_cmd[2], local_position[2]),
                                      RSub(local_velocity_cmd[2], local_velocity[2]),
                                      acceleration_ff[2])
    IN  <<acc_x, acc_y>>

\* Mutant: the thrust clipped from above only.
altitude_thrust_unclipped_below(self_, heap_, altitude_cmd, vertical_velocity_cmd, altitude, vertical_velocity, b_z, acceleration_ff) ==
    IF RLt(EPSILON, RAbs(b_z))
    THEN LET error_z == RSub(altitude_cmd, altitude)
             error_z_dot == RSub(vertical_velocity_cmd, vertical_velocity)
             u_1_bar == PDController_control(heap_[self_.altitude_controller_],
                                             error_z, error_z_dot, acceleration_ff)
             thrust == RDiv(RMul(DRONE_MASS_KG, u_1_bar), b_z)
         IN  IF RLt(MAX_THRUST, thrust) THEN MAX_THRUST ELSE thrust
    ELSE Zero

\* Mutant: the acceleration not scaled by the mass.
altitude_thrust_no_mass(self_, heap_, altitude_cmd, vertical_velocity_cmd, altitude, vertical_velocity, b_z, acceleration_ff) ==
    IF RLt(EPSILON, RAbs(b_z))
    THEN LET error_z == RSub(altitude_cmd, altitude)
             error_z_dot == RSub(vertical_velocity_cmd, vertical_velocity)
             u_1_bar == PDController_control(heap_[self_.altitude_controller_],
                                             error_z, error_z_dot, acceleration_ff)
             thrust == RDiv(u_1_bar, b_z)
         IN  clip(thrust, Zero, MAX_THRUST)
    ELSE Zero

\* The body of altitude_control once b_z = R[2][2] is read.
altitude_thrust(self_, heap_, altitude_cmd, vertical_velocity_cmd, altitude, vertical_velocity, b_z, acceleration_ff) ==
    IF RLt(EPSILON, RAbs(b_z))
    THEN LET error_z == RSub(altitude_cmd, altitude)
             error_z_dot == RSub(vertical_velocity_cmd, vertical_velocity)
             u_1_bar == PDController_control(heap_[self_.altitude_controller_],
                                             error_z, error_z_dot, acceleration_ff)
             thrust == RDiv(RMul(DRONE_MASS_KG, u_1_bar), b_z)
         IN  clip(thrust, Zero, MAX_THRUST)
    ELSE Zero

altitude_control(self_, heap_, altitude_cmd, vertical_velocity_cmd, altitude, vertical_velocity, attitude, acceleration_ff) ==
    altitude_thrust(self_, heap_, altitude_cmd, vertical_velocity_cmd, altitude,
                    vertical_velocity, euler2RM(attitude)[3][3], acceleration_ff)

\* (1.0 / R[2,2]) * np.matmul(M, b_c_dot), M = [[R10, -R00], [R11, -R01]].
body_frame_rates(R, b_c_dot) ==
    LET inv == RDiv(<<1, 1>>, R[3][3])
    IN  << RMul(inv, RAdd(RMul(R[2][1], b_c_dot[1]), RMul(RNeg(R[1][1]), b_c_dot[2]))),
           RMul(inv, RAdd(RMul(R[2][2], b_c_dot[1]), RMul(RNeg(R[1][2]), b_c_dot[2]))) >>

\* The desired tilt component: acceleration over -thrust/mass, clipped.
desired_tilt(acceleration, thrust_cmd) ==
    clip(RDiv(acceleration, RDiv(RNeg(thrust_cmd), DRONE_MASS_KG)),
         RNeg(MAX_TILT), MAX_TILT)

\* The body of roll_pitch_controller once R = euler2RM(attitude) is computed.
roll_pitch_rates(self_, heap_, acceleration_cmd, R, thrust_cmd) ==
    IF RLt(EPSILON, RAbs(R[3][3]))
    THEN LET b_a_x == R[1][3]
             b_a_y == R[2][3]
             b_c_x == desired_tilt(acceleration_cmd[1], thrust_cmd)
             b_c_y == desired_tilt(acceleration_cmd[2], thrust_cmd)
             b_c_x_dot == PController_control(heap_[self_.roll_controller_],
                                              RSub(b_c_x, b_a_x))
             b_c_y_dot == PController_control(heap_[self_.pitch_controller_],
                                              RSub(b_c_y, b_a_y))
         IN  body_frame_rates(R, <<b_c_x_dot, b_c_y_dot>>)
    ELSE <<Zero, Zero>>

roll_pitch_controller(self_, heap_, acceleration_cmd, attitude, thrust_cmd) ==
    IF RLt(EPSILON, RAbs(thrust_cmd))
    THEN roll_pitch_rates(self_, heap_, acceleration_cmd, euler2RM(attitude), thrust_cmd)
    ELSE <<Zero, Zero>>

\* Mutant: the yaw axis run through the p/q controller.
body_rate_control_shared_r(self_, heap_, MOI_, body_rate_cmd, body_rate) ==
    LET moment_p == RMul(MOI_[1], PController_control(heap_[self_.p_controller_],
                                                      RSub(body_rate_cmd[1], body_rate[1])))
        moment_q == RMul(MOI_[2], PController_control(heap_[self_.q_controller_],
                                                      RSub(body_rate_cmd[2], body_rate[2])))
        moment_r == RMul(MOI_[3], PController_control(heap_[self_.q_controller_],
                                                      RSub(body_rate_cmd[3], body_rate[3])))
    IN  << clip(moment_p, RNeg(MAX_TORQUE), MAX_TORQUE),
           clip(moment_q, RNeg(MAX_TORQUE), MAX_TORQUE),
           clip(moment_r, RNeg(MAX_TORQUE), MAX_TORQUE) >>

body_rate_control(self_, heap_, MOI_, body_rate_cmd, body_rate) ==
    LET moment_p == RMul(MOI_[1], PController_control(heap_[self_.p_controller_],
                                                      RSub(body_rate_cmd[1], body_rate[1])))
        moment_q == RMul(MOI_[2], PController_control(heap_[self_.q_controller_],
                                                      RSub(body_rate_cmd[2], body_rate[2])))
        moment_r == RMul(MOI_[3], PController_control(heap_[self_.r_controller_],
                                                      RSub(body_rate_cmd[3], body_rate[3])))
    IN  << clip(moment_p, RNeg(MAX_TORQUE), MAX_TORQUE),
           clip(moment_q, RNeg(MAX_TORQUE), MAX_TORQUE),
           clip(moment_r, RNeg(MAX_TORQUE), MAX_TORQUE) >>

yaw_control(self_, heap_, yaw_cmd, yaw) ==
    LET error == normalize_angle(RSub(yaw_cmd, yaw))
    IN  PController_control(heap_[self_.yaw_controller_], error)

-----------------------------------------------------------------------------
(* The control loop that drives the controller: one cycle runs the stages  *)
(* in cascade on the vehicle state and the target.                         *)

\* The value, in units of pi, of a named angle that is a multiple of pi/2.
Radians(a) ==
    CASE a = "0"     -> Rat(0, 1)
      [] a = "pi/2"  -> Rat(1, 2)
      [] a = "pi"    -> Rat(1, 1)
      [] a = "-pi/2" -> Rat(-1, 2)

\* The stages after the thrust and the acceleration command are known.
cascade_rates(self_, heap_, MOI_, thrust_cmd, roll_pitch_rate_cmd, yawrate_cmd, body_rate) ==
    [thrust  |-> thrust_cmd,
     moments |-> body_rate_control(self_, heap_, MOI_,
                     <<roll_pitch_rate_cmd[1], roll_pitch_rate_cmd[2], yawrate_cmd>>,
                     body_rate),
     yawrate |-> yawrate_cmd]

cascade_attitude(self_, heap_, MOI_, thrust_cmd, acceleration_cmd, target_yaw, attitude, body_rate) ==
    cascade_rates(self_, heap_, MOI_, thrust_cmd,
                  roll_pitch_controller(self_, heap_, acceleration_cmd, attitude, thrust_cmd),
                  yaw_control(self_, heap_, target_yaw, Radians(attitude[3])),
                  body_rate)

\* Positions and velocities are NED (z down); altitude_control takes +up.
Cascade(self_, heap_, MOI_, ff_default_, target_position, target_velocity, target_yaw, position, velocity, attitude, body_rate, acceleration_ff) ==
    cascade_attitude(self_, heap_, MOI_,
        altitude_control(self_, heap_,
            RNeg(target_position[3]), RNeg(target_velocity[3]),
            RNeg(position[3]), RNeg(velocity[3]), attitude, acceleration_ff),
        lateral_position_control(self_, heap_,
            <<target_position[1], target_position[2]>>,
            <<target_velocity[1], target_velocity[2]>>,
            <<position[1], position[2]>>,
            <<velocity[1], velocity[2]>>, ff_default_),
        target_yaw, attitude, body_rate)

-----------------------------------------------------------------------------
(* The arguments the calls are drawn from.                                 *)

MaxWaypoints == 3

MaxTime == 2

MaxRate == 20

MaxQuarterTurns == 8

MaxAltitude == 100

\* Timestamps: the non-decreasing sequences of n whole seconds.
TimeTrajectories(n) ==
    { [i \in 1..n |-> Rat(t[i], 1)] :
        t \in { u \in [1..n -> 0..MaxTime] : \A i \in 1..(n - 1) : u[i] <= u[i + 1] } }

PositionSet == { <<Zero, Zero, Zero>>, <<Rat(2, 1), Rat(1, 1), Rat(-5, 1)>> }

YawSet == { Zero, Rat(1, 2) }

\* Half-second steps from one second before the first possible timestamp
\* to one second after the last.
CurrentTimes == { Rat(k, 2) : k \in (-2)..(2 * MaxTime + 2) }

AttitudeSet ==
    { <<"0", "0", "0">>, <<"0", "0", "pi/2">>, <<"tilt", "0", "0">>,
      <<"0", "tilt", "0">>, <<"-tilt", "tilt", "pi/2">>, <<"tilt", "-tilt", "tilt">>,
      <<"pi/2", "0", "0">>, <<"pi", "0", "0">>, <<"pi", "tilt", "0">>,
      <<"edge", "0", "0">>, <<"edge", "pi", "0">> }

AltitudeSet == { Zero, Rat(5, 1), Rat(MaxAltitude, 1) }

VerticalVelocitySet == { Rat(-3, 1), Zero, Rat(2, 1) }

\* No feed-forward (the default 0.0), or the gravity compensation -GRAVITY.
AccelerationFFSet == { Zero, RNeg(GRAVITY) }

Vec2Set == { <<Zero, Zero>>, <<Rat(2, 1), Rat(-1, 1)>>, <<Rat(-3, 1), Rat(7, 2)>> }

AccelerationCmdSet == { <<x, y>> : x \in { Rat(-12, 1), Zero, Rat(6, 1) },
                                   y \in { Rat(-12, 1), Zero, Rat(6, 1) } }

ThrustCmdSet == { Zero, EPSILON, Rat(5, 1), MAX_THRUST, Rat(-5, 1) }

RateSet == { Rat(-MaxRate, 1), Zero, Rat(1, 1), Rat(12, 1), Rat(MaxRate, 1) }

MeasuredRateSet == { Zero, Rat(MaxRate, 1) }

YawAngles == { Rat(k, 4) : k \in (-MaxQuarterTurns)..MaxQuarterTurns }

HoverPosition == <<Zero, Zero, Rat(-5, 1)>>

Zero3 == <<Zero, Zero, Zero>>

-----------------------------------------------------------------------------
(* The state machine.                                                      *)

NoCall == [op |-> "none", args |-> <<>>]

Init ==
    /\ pc = "idle"
    /\ call = NoCall
    /\ ret = <<>>
    /\ frame = <<>>
    /\ trajectory = <<>>
    /\ self = SELF_INIT
    /\ heap = HEAP_INIT
    /\ MOI = MOI_INIT
    /\ acceleration_ff_default = FF_DEFAULT_INIT
    /\ reused = FALSE

Call_trajectory_control ==
    /\ pc = "idle"
    /\ \E n \in 1..MaxWaypoints :
         \E T \in TimeTrajectories(n), P \in [1..n -> PositionSet],
            Y \in [1..n -> YawSet], current_time \in CurrentTimes :
            /\ call' = [op |-> "trajectory_control", args |-> <<P, Y, T, current_time>>]
            /\ frame' = trajectory_segment(P, Y, T, current_time)
            /\ ret' = trajectory_control(P, Y, T, current_time)
            /\ trajectory' = <<P, Y, T>>
    /\ pc' = "returned"
    /\ UNCHANGED <<self, heap, MOI, acceleration_ff_default, reused>>

\* Mutant: the result accumulated in place into the feed-forward array, which
\* is the shared default array when the caller passes none.
Call_lateral_position_control_in_place ==
    /\ pc = "idle"
    /\ \E local_position_cmd \in Vec2Set, local_velocity_cmd \in Vec2Set,
          local_position \in Vec2Set, local_velocity \in Vec2Set,
          ff \in { "default", "given" } :
          LET acceleration_ff == IF ff = "default" THEN acceleration_ff_default
                                 ELSE <<Rat(1, 1), Rat(-1, 2)>>
              acc == lateral_position_control(self, heap, local_position_cmd,
                         local_velocity_cmd, local_position, local_velocity,
                         acceleration_ff)
          IN  /\ call' = [op |-> "lateral_position_control",
                          args |-> <<local_position_cmd, local_velocity_cmd,
                                     local_position, local_velocity, ff>>]
              /\ ret' = acc
              /\ acceleration_ff_default' =
                     IF ff = "default" THEN acc ELSE acceleration_ff_default
    /\ pc' = "returned"
    /\ frame' = <<>>
    /\ UNCHANGED <<trajectory, self, heap, MOI, reused>>

Call_lateral_position_control ==
    /\ pc = "idle"
    /\ \E local_position_cmd \in Vec2Set, local_velocity_cmd \in Vec2Set,
          local_position \in Vec2Set, local_velocity \in Vec2Set,
          ff \in { "default", "given" } :
          LET acceleration_ff == IF ff = "default" THEN acceleration_ff_default
                                 ELSE <<Rat(1, 1), Rat(-1, 2)>>
          IN  /\ call' = [op |-> "lateral_position_control",
                          args |-> <<local_position_cmd, local_velocity_cmd,
                                     local_position, local_velocity, ff>>]
              /\ ret' = lateral_position_control(self, heap, local_position_cmd,
                            local_velocity_cmd, local_position, local_velocity,
                            acceleration_ff)
    /\ pc' = "returned"
    /\ frame' = <<>>
    /\ UNCHANGED <<trajectory, self, heap, MOI, acceleration_ff_default, reused>>

Call_altitude_control ==
    /\ pc = "idle"
    /\ \E altitude_cmd \in AltitudeSet, vertical_velocity_cmd \in VerticalVelocitySet,
          altitude \in AltitudeSet, vertical_velocity \in VerticalVelocitySet,
          attitude \in AttitudeSet, acceleration_ff \in AccelerationFFSet :
          /\ call' = [op |-> "altitude_control",
                      args |-> <<altitude_cmd, vertical_velocity_cmd, altitude,
                                 vertical_velocity, attitude, acceleration_ff>>]
          /\ ret' = altitude_control(self, heap, altitude_cmd, vertical_velocity_cmd,
                        altitude, vertical_velocity, attitude, acceleration_ff)
    /\ pc' = "returned"
    /\ frame' = <<>>
    /\ UNCHANGED <<trajectory, self, heap, MOI, acceleration_ff_default, reused>>

Call_roll_pitch_controller ==
    /\ pc = "idle"
    /\ \E acceleration_cmd \in AccelerationCmdSet, attitude \in AttitudeSet,
          thrust_cmd \in ThrustCmdSet :
          /\ call' = [op |-> "roll_pitch_controller",
                      args |-> <<acceleration_cmd, attitude, thrust_cmd>>]
          /\ ret' = roll_pitch_controller(self, heap, acceleration_cmd, attitude, thrust_cmd)
    /\ pc' = "returned"
    /\ frame' = <<>>
    /\ UNCHANGED <<trajectory, self, heap, MOI, acceleration_ff_default, reused>>

Call_body_rate_control ==
    /\ pc = "idle"
    /\ \E body_rate_cmd \in RateSet \X RateSet \X RateSet,
          body_rate \in MeasuredRateSet \X MeasuredRateSet \X MeasuredRateSet :
          /\ call' = [op |-> "body_rate_control", args |-> <<body_rate_cmd, body_rate>>]
          /\ ret' = body_rate_control(self, heap, MOI, body_rate_cmd, body_rate)
    /\ pc' = "returned"
    /\ frame' = <<>>
    /\ UNCHANGED <<trajectory, self, heap, MOI, acceleration_ff_default, reused>>

Call_yaw_control ==
    /\ pc = "idle"
    /\ \E yaw_cmd \in YawAngles, yaw \in YawAngles :
          /\ call' = [op |-> "yaw_control", args |-> <<yaw_cmd, yaw>>]
          /\ ret' = yaw_control(self, heap, yaw_cmd, yaw)
    /\ pc' = "returned"
    /\ frame' = <<>>
    /\ UNCHANGED <<trajectory, self, heap, MOI, acceleration_ff_default, reused>>

\* One whole control cycle of the loop, on the hovering vehicle and near it.
Call_Cascade ==
    /\ pc = "idle"
    /\ \E position \in { HoverPosition, <<Rat(1, 1), Zero, Rat(-4, 1)>> },
          attitude \in { <<"0", "0", "0">>, <<"tilt", "0", "0">>, <<"0", "0", "pi/2">> },
          target_yaw \in { Zero, Rat(1, 2) },
          body_rate \in { Zero3, <<Rat(1, 1), Zero, Zero>> },
          acceleration_ff \in AccelerationFFSet :
          /\ call' = [op |-> "Cascade",
                      args |-> <<HoverPosition, Zero3, target_yaw, position, Zero3,
                                 attitude, body_rate, acceleration_ff>>]
          /\ ret' = Cascade(self, heap, MOI, acceleration_ff_default, HoverPosition, Zero3,
                        target_yaw, position, Zero3, attitude, body_rate, acceleration_ff)
    /\ pc' = "returned"
    /\ frame' = <<>>
    /\ UNCHANGED <<trajectory, self, heap, MOI, acceleration_ff_default, reused>>

\* The caller consumes the command; the next cycle passes fresh arguments.
EndCycle ==
    /\ pc = "returned"
    /\ pc' = "idle"
    /\ call' = NoCall
    /\ ret' = <<>>
    /\ frame' = <<>>
    /\ trajectory' = <<>>
    /\ reused' = TRUE
    /\ UNCHANGED <<self, heap, MOI, acceleration_ff_default>>

Next ==
    \/ Call_trajectory_control
    \/ Call_lateral_position_control
    \/ Call_altitude_control
    \/ Call_roll_pitch_controller
    \/ Call_body_rate_control
    \/ Call_yaw_control
    \/ Call_Cascade
    \/ EndCycle

Spec == Init /\ [][Next]_vars

-----------------------------------------------------------------------------
(* What the claims speak of.                                               *)

Returned(op) == pc = "returned" /\ call.op = op

StrictlyIncreasing(T) == \A i \in 1..(Len(T) - 1) : RLt(T[i], T[i + 1])

\* Every number of the value a call returned is finite (no inf, no nan).
FiniteResult ==
    CASE call.op = "trajectory_control" ->
             VFinite(ret.position_cmd) /\ VFinite(ret.velocity_cmd) /\ IsFinite(ret.yaw_cmd)
      [] call.op \in { "lateral_position_control", "roll_pitch_controller",
                       "body_rate_control" } -> VFinite(ret)
      [] call.op \in { "altitude_control", "yaw_control" } -> IsFinite(ret)
      [] call.op = "Cascade" ->
             IsFinite(ret.thrust) /\ VFinite(ret.moments) /\ IsFinite(ret.yawrate)

-----------------------------------------------------------------------------
(* The trajectory sampler.                                                 *)

\* C1: for a non-empty trajectory with strictly increasing timestamps and a
\* current_time outside [times[0], times[last]], trajectory_control holds the
\* nearest waypoint: before times[0] the commanded position is positions[0],
\* after times[last] it is positions[last], and the commanded velocity is zero
\* in both cases.
C1_HoldsNearestWaypointOutsideRange ==
    Returned("trajectory_control") =>
        LET P == call.args[1]
            T == call.args[3]
            current_time == call.args[4]
            last == Len(T)
        IN  StrictlyIncreasing(T) =>
              /\ RLt(current_time, T[1]) =>
                    ret.position_cmd = P[1] /\ ret.velocity_cmd = Zero3
              /\ RLt(T[last], current_time) =>
                    ret.position_cmd = P[last] /\ ret.velocity_cmd = Zero3

\* C2: no controller operation fails or divides by zero: trajectory_control
\* never has time1 - time0 = 0 as its divisor for a non-empty trajectory with
\* non-decreasing timestamps (two equal adjacent timestamps and a single
\* waypoint included) and any current_time, the guarded divisions of
\* altitude_control and roll_pitch_controller are never taken at a magnitude
\* <= EPSILON, and every call returns a finite command.
C2_NeverDividesByZero ==
    pc = "returned" =>
        /\ Returned("trajectory_control") => frame.time1 # frame.time0
        /\ FiniteResult

\* C6: for a trajectory of at least two waypoints with strictly increasing
\* timestamps and an index i that is not the last, trajectory_control at
\* current_time = times[i] returns exactly positions[i] and the velocity
\* (positions[i+1] - positions[i]) / (times[i+1] - times[i]).
C6_SamplingAtAWaypoint ==
    Returned("trajectory_control") =>
        LET P == call.args[1]
            T == call.args[3]
            current_time == call.args[4]
        IN  (Len(T) >= 2 /\ StrictlyIncreasing(T)) =>
              \A i \in 1..(Len(T) - 1) :
                  current_time = T[i] =>
                      /\ ret.position_cmd = P[i]
                      /\ ret.velocity_cmd = VDivS(VSub(P[i + 1], P[i]), RSub(T[i + 1], T[i]))

\* C6 witness: sampled at the middle waypoint of three, with a next waypoint
\* elsewhere, so that the slope returned is not zero.
C6_Witness ==
    /\ Returned("trajectory_control")
    /\ Len(call.args[3]) = 3
    /\ StrictlyIncreasing(call.args[3])
    /\ call.args[4] = call.args[3][2]
    /\ call.args[1][3] # call.args[1][2]
    /\ ret.position_cmd = call.args[1][2]
    /\ ret.velocity_cmd # Zero3

\* C9: with i the index of the timestamp nearest to current_time: if
\* current_time < times[i] the sampler interpolates between waypoints i-1 and
\* i and returns the yaw of the earlier sample i-1; otherwise it returns
\* yaws[i] and interpolates between i and i+1, or holds waypoint i when i is
\* the last.  Hence, for strictly increasing timestamps and current_time in
\* [times[0], times[last]], the waypoints used are adjacent (or the held last
\* one) and bracket current_time, the commanded position is the linear
\* interpolation between them, and the commanded yaw is that of the latest
\* waypoint whose timestamp is <= current_time.  (i counts from 1 here.)
C9_SegmentAndYawSelection ==
    Returned("trajectory_control") =>
        LET P == call.args[1]
            Y == call.args[2]
            T == call.args[3]
            current_time == call.args[4]
            last == Len(T)
            i == frame.ind_min + 1
            InRange == RLe(T[1], current_time) /\ RLe(current_time, T[last])
            Before(j) == RLe(T[j], current_time)
        IN  StrictlyIncreasing(T) =>
              /\ IF RLt(current_time, T[i])
                 THEN /\ i - 1 >= 1
                      /\ frame.position0 = P[i - 1] /\ frame.position1 = P[i]
                      /\ frame.time0 = T[i - 1] /\ frame.time1 = T[i]
                      /\ ret.yaw_cmd = Y[i - 1]
                 ELSE /\ ret.yaw_cmd = Y[i]
                      /\ IF i = last
                         THEN frame.position0 = P[i] /\ frame.position1 = P[i]
                         ELSE /\ frame.position0 = P[i] /\ frame.position1 = P[i + 1]
                              /\ frame.time0 = T[i] /\ frame.time1 = T[i + 1]
              /\ InRange =>
                    /\ \E j \in 1..last :
                          /\ Before(j)
                          /\ \A k \in 1..last : Before(k) => k <= j
                          /\ ret.yaw_cmd = Y[j]
                          /\ IF j = last
                             THEN ret.position_cmd = P[j]
                             ELSE /\ RLe(current_time, T[j + 1])
                                  /\ ret.position_cmd =
                                        VAdd(P[j], VMulS(VSub(P[j + 1], P[j]),
                                                         RDiv(RSub(current_time, T[j]),
                                                              RSub(T[j + 1], T[j]))))

-----------------------------------------------------------------------------
(* The altitude stage.                                                     *)

\* C3: for all inputs altitude_control returns a thrust in [0, MAX_THRUST];
\* when |b_z| = |R[2][2]| <= EPSILON (b_z = 0 included) it returns exactly 0,
\* and when b_z is negative the result is still within [0, MAX_THRUST].
C3_ThrustWithinLimits ==
    Returned("altitude_control") =>
        LET b_z == euler2RM(call.args[5])[3][3]
        IN  /\ RLe(Zero, ret) /\ RLe(ret, MAX_THRUST)
            /\ RLe(RAbs(b_z), EPSILON) => ret = Zero

\* C3 witness: an inverted vehicle (b_z < 0) whose unclipped thrust would be
\* negative, returned as 0.
C3_Witness ==
    /\ Returned("altitude_control")
    /\ RLt(euler2RM(call.args[5])[3][3], RNeg(EPSILON))
    /\ RLt(call.args[3], call.args[1])
    /\ call.args[2] = call.args[4]
    /\ call.args[6] = Zero
    /\ ret = Zero

-----------------------------------------------------------------------------
(* The hovering vehicle.                                                   *)

Hovering ==
    /\ Returned("Cascade")
    /\ call.args[1] = HoverPosition /\ call.args[2] = Zero3
    /\ call.args[4] = HoverPosition /\ call.args[5] = Zero3
    /\ call.args[6] = <<"0", "0", "0">> /\ call.args[3] = Zero
    /\ call.args[7] = Zero3

HoverThrust == RMul(DRONE_MASS_KG, RAbs(GRAVITY))

\* C4, as claimed: the hovering vehicle at (0,0,-5), commanded to hold
\* (0,0,-5) at the same yaw with the default zero feed-forward, gets a thrust
\* approximately DRONE_MASS_KG * |GRAVITY| (within 1/1000), zero moments and
\* a zero yaw-rate command.
C4_HoverWithDefaultFeedForward ==
    (Hovering /\ call.args[8] = Zero) =>
        /\ RLe(RAbs(RSub(ret.thrust, HoverThrust)), Rat(1, 1000))
        /\ ret.moments = Zero3
        /\ ret.yawrate = Zero

\* C4, amended: the same cascade yields zero moments and a zero yaw-rate
\* command; its thrust is DRONE_MASS_KG * |GRAVITY| when the caller passes
\* acceleration_ff = |GRAVITY| to altitude_control, and exactly 0 with the
\* default zero feed-forward.
C4_HoverWithGravityFeedForward ==
    Hovering =>
        /\ call.args[8] = RNeg(GRAVITY) => ret.thrust = HoverThrust
        /\ call.args[8] = Zero => ret.thrust = Zero
        /\ ret.moments = Zero3
        /\ ret.yawrate = Zero

C4_Witness ==
    /\ Hovering
    /\ call.args[8] = RNeg(GRAVITY)
    /\ ret.thrust = Rat(4905, 1000)

-----------------------------------------------------------------------------
(* Zero error, zero output.                                                *)

\* C5: with zero tracking error and zero feed-forward every stage returns
\* exactly zero: lateral_position_control (0,0) when the position and velocity
\* commands equal the measured ones; altitude_control 0 when the altitude and
\* vertical-velocity commands equal the measured ones, for any attitude;
\* roll_pitch_controller (0,0) when the clipped desired tilt components equal
\* R[0][2] and R[1][2]; body_rate_control (0,0,0) when the rate command equals
\* the rate; yaw_control 0 when yaw_cmd equals yaw.
C5_ZeroErrorZeroOutput ==
    /\ (/\ Returned("lateral_position_control")
        /\ call.args[1] = call.args[3] /\ call.args[2] = call.args[4]
        /\ call.args[5] = "default") => ret = <<Zero, Zero>>
    /\ (/\ Returned("altitude_control")
        /\ call.args[1] = call.args[3] /\ call.args[2] = call.args[4]
        /\ call.args[6] = Zero) => ret = Zero
    /\ (/\ Returned("roll_pitch_controller")
        /\ call.args[3] # Zero
        /\ desired_tilt(call.args[1][1], call.args[3]) = euler2RM(call.args[2])[1][3]
        /\ desired_tilt(call.args[1][2], call.args[3]) = euler2RM(call.args[2])[2][3])
          => ret = <<Zero, Zero>>
    /\ (Returned("body_rate_control") /\ call.args[1] = call.args[2]) => ret = Zero3
    /\ (Returned("yaw_control") /\ call.args[1] = call.args[2]) => ret = Zero

\* C5 witness: altitude_control on a tilted vehicle above the ground, with
\* its commands equal to the measured altitude and vertical velocity.
C5_Witness ==
    /\ Returned("altitude_control")
    /\ call.args[1] = call.args[3] /\ call.args[1] # Zero
    /\ call.args[2] = call.args[4] /\ call.args[2] # Zero
    /\ call.args[5] = <<"tilt", "-tilt", "tilt">>
    /\ call.args[6] = Zero
    /\ ret = Zero

-----------------------------------------------------------------------------
(* The yaw stage.                                                          *)

\* C7: the error yaw_control applies its P gain to is normalize_angle of
\* x = yaw_cmd - yaw: it lies in [-pi, pi), differs from x by a whole multiple
\* of 2 pi, and normalize_angle leaves it as it is (idempotence); x = 3 pi / 2
\* gives -pi / 2.
C7_WrappedYawError ==
    Returned("yaw_control") =>
        LET x == RSub(call.args[1], call.args[2])
            error == RDiv(ret, Rat(11, 2))
            turns == RDiv(RSub(x, error), RMul(Rat(2, 1), PI))
        IN  /\ RLe(RNeg(PI), error) /\ RLt(error, PI)
            /\ turns[2] = 1
            /\ normalize_angle(error) = error
            /\ x = Rat(3, 2) => error = Rat(-1, 2)

\* C7 witness: yaw_cmd - yaw = 3 pi / 2, answered with 5.5 * (-pi / 2).
C7_Witness ==
    /\ Returned("yaw_control")
    /\ RSub(call.args[1], call.args[2]) = Rat(3, 2)
    /\ ret = Rat(-11, 4)

-----------------------------------------------------------------------------
(* The body-rate stage.                                                    *)

\* C8: body_rate_control returns three moments, each within
\* [-MAX_TORQUE, MAX_TORQUE] and each the clipped value of
\* MOI[axis] * k_p * (rate_cmd[axis] - rate[axis]), k_p being 20.0 on the p
\* and q axes and 7.5 on the r axis; an axis within bounds is returned
\* unclipped whatever the other axes do.
C8_MomentsWithinLimits ==
    Returned("body_rate_control") =>
        LET k_p == <<Rat(20, 1), Rat(20, 1), Rat(15, 2)>>
            inertia == <<Rat(5, 1000), Rat(5, 1000), Rat(1, 100)>>
            raw(axis) == RMul(inertia[axis],
                              RMul(k_p[axis], RSub(call.args[1][axis], call.args[2][axis])))
        IN  \A axis \in 1..3 :
              /\ RLe(RNeg(MAX_TORQUE), ret[axis]) /\ RLe(ret[axis], MAX_TORQUE)
              /\ ret[axis] = IF RLt(raw(axis), RNeg(MAX_TORQUE)) THEN RNeg(MAX_TORQUE)
                             ELSE IF RLt(MAX_TORQUE, raw(axis)) THEN MAX_TORQUE
                             ELSE raw(axis)

\* C8 witness: the p axis saturates at MAX_TORQUE while the r axis, with the
\* same rate error, stays within bounds and is returned unclipped.
C8_Witness ==
    /\ Returned("body_rate_control")
    /\ RSub(call.args[1][1], call.args[2][1]) = RSub(call.args[1][3], call.args[2][3])
    /\ ret[1] = MAX_TORQUE
    /\ RLt(Zero, ret[3]) /\ RLt(ret[3], MAX_TORQUE)

-----------------------------------------------------------------------------
(* The controller keeps no state.                                          *)

\* What a freshly constructed controller returns for the call.
FreshResult ==
    CASE call.op = "trajectory_control" ->
             trajectory_control(call.args[1], call.args[2], call.args[3], call.args[4])
      [] call.op = "lateral_position_control" ->
             lateral_position_control(SELF_INIT, HEAP_INIT, call.args[1], call.args[2],
                 call.args[3], call.args[4],
                 IF call.args[5] = "default" THEN FF_DEFAULT_INIT
                 ELSE <<Rat(1, 1), Rat(-1, 2)>>)
      [] call.op = "altitude_control" ->
             altitude_control(SELF_INIT, HEAP_INIT, call.args[1], call.args[2],
                 call.args[3], call.args[4], call.args[5], call.args[6])
      [] call.op = "roll_pitch_controller" ->
             roll_pitch_controller(SELF_INIT, HEAP_INIT, call.args[1], call.args[2],
                 call.args[3])
      [] call.op = "body_rate_control" ->
             body_rate_control(SELF_INIT, HEAP_INIT, MOI_INIT, call.args[1], call.args[2])
      [] call.op = "yaw_control" ->
             yaw_control(SELF_INIT, HEAP_INIT, call.args[1], call.args[2])
      [] call.op = "Cascade" ->
             Cascade(SELF_INIT, HEAP_INIT, MOI_INIT, FF_DEFAULT_INIT, call.args[1],
                 call.args[2], call.args[3], call.args[4], call.args[5], call.args[6],
                 call.args[7], call.args[8])

\* C10: no operation changes a gain (the shared instances included), the MOI
\* array, the shared default feed-forward array or the trajectory passed in;
\* so after any sequence of calls a call returns what a freshly constructed
\* controller returns for the same arguments.
C10_Stateless ==
    /\ self = SELF_INIT
    /\ heap = HEAP_INIT
    /\ MOI = MOI_INIT
    /\ acceleration_ff_default = FF_DEFAULT_INIT
    /\ Returned("trajectory_control") =>
          trajectory = <<call.args[1], call.args[2], call.args[3]>>
    /\ pc = "returned" => ret = FreshResult

\* C10 witness: a controller that has served calls before returns a non-zero
\* acceleration from lateral_position_control called without feed-forward.
C10_Witness ==
    /\ reused
    /\ Returned("lateral_position_control")
    /\ call.args[5] = "default"
    /\ ret # <<Zero, Zero>>

====
